---- MODULE Spec2Model ----
(***************************************************************************)
(* Model of src/progression.js: the salary progression calculator          *)
(* (SalaryProgressionCalculator) and the cost-of-living converter          *)
(* (COLConverter) with its city resolver.                                  *)
(*                                                                         *)
(* Three specifications share the module:                                  *)
(*   SpecProgression  the progression page (toggleYear, handleSubmit)      *)
(*   SpecResolver     resolveCity applied to enumerated query strings      *)
(*   Spec             the converter page (init, loads, handleConvert, ...) *)
(***************************************************************************)
EXTENDS Integers, Sequences, FiniteSets, TLC

VARIABLES
    \* ---- SalaryProgressionCalculator
    selectedYears,   \* this.selectedYears (a Set of years)
    submitted,       \* the arguments of the last calculateProgression call
    results,         \* what displayResults last rendered (NoResults before)
    tableHidden,     \* the progression page's resultDiv carries 'hidden'
    \* ---- resolveCity applied on its own
    query,           \* the cityName argument of the last call
    resolved,        \* what that call returned
    \* ---- COLConverter
    msaLoad,         \* loadMSAData: "pending", "ok" or "failed"
    rppLoad,         \* loadRPPCache: "pending", "ok" or "failed"
    msaData,         \* this.msaData
    rppCache,        \* this.rppCache
    listening,       \* init() ran past Promise.all: listeners are attached
    fromField,       \* #from-city value
    toField,         \* #to-city value
    salaryField,     \* #salary value, as parseFloat reads it
    resultHidden,    \* this.result carries the class 'hidden'
    loadingHidden,   \* this.loading carries the class 'hidden'
    fromError,       \* #from-error text
    toError,         \* #to-error text
    lastAlert,       \* the message the last step alerted ("" if none)
    shown,           \* what displayResults last wrote into the result panel
    shareURL,        \* the from/to/salary parameters of window.location
    trace,           \* the last handleConvert run: what it read and did
    pending          \* the handleConvert run suspended at its await, if any

progVars == <<selectedYears, submitted, results, tableHidden>>
resolverVars == <<query, resolved>>
dataVars == <<msaLoad, rppLoad, msaData, rppCache>>
pageVars == <<listening, fromField, toField, salaryField, resultHidden,
              loadingHidden, fromError, toError, lastAlert, shown, shareURL,
              trace, pending>>

vars == <<progVars, resolverVars, dataVars, pageVars>>

(***************************************************************************)
(* SalaryProgressionCalculator                                             *)
(***************************************************************************)

\* for (let year = 0; year <= 20; year++)  and the 20 year boxes
Horizon == 20

\* The year boxes the user clicks in the model (all 20 exist in the page).
ClickYears == {1, 2, 10, 20}

\* A text input's content as parseFloat reads it: a number or NaN.
NaN == [nan |-> TRUE, v |-> 0]
Num(x) == [nan |-> FALSE, v |-> x]

\* Inputs.  Rates are multiples of 50 and salaries multiples of 2^5, so that
\* every x * (rate / 100) of a run is an integer and Pct below is exact.
StartingSalaries == {32, 96}
ColRates == {0, 100}
PromotionRates == {-50, 0, 100}

NoResults == [progression |-> <<>>, finalSalary |-> 0, totalEarned |-> 0]
NoData == [startingSalary |-> 0, colCompensation |-> 0,
           promotionIncrease |-> 0, years |-> {}]

RECURSIVE GCD(_, _)
GCD(a, b) == IF b = 0 THEN a ELSE GCD(b, a % b)

Abs(x) == IF x < 0 THEN -x ELSE x

\* x * (rate / 100): the quotient rate / 100 is formed first (in lowest
\* terms), then multiplied.
Pct(x, rate) ==
    LET g == GCD(100, Abs(rate))
    IN (x * (rate \div g)) \div (100 \div g)

\* const colIncrease = year > 0 ? startingSalary * (data.colCompensation / 100) : 0;
ColIncrease(year, startingSalary, data) ==
    IF year > 0 THEN Pct(startingSalary, data.colCompensation) ELSE 0

\* Mutant: the promotion raise is taken from the salary after the COL raise.
PromotionIncreaseStacked(year, years, startingSalary, data) ==
    IF year > 0 /\ year \in years
    THEN Pct(startingSalary + ColIncrease(year, startingSalary, data),
             data.promotionIncrease)
    ELSE 0

\* const promotionIncrease = year > 0 && this.selectedYears.has(year)
\*     ? startingSalary * (data.promotionIncrease / 100) : 0;
PromotionIncrease(year, years, startingSalary, data) ==
    IF year > 0 /\ year \in years
    THEN Pct(startingSalary, data.promotionIncrease)
    ELSE 0

\* if (year > 0 && this.selectedYears.has(year)) { promotionNumber++; }
NextPromotionNumber(year, years, promotionNumber) ==
    IF year > 0 /\ year \in years THEN promotionNumber + 1 ELSE promotionNumber

\* Mutant: the running counter is attached to every row.
RowPromotionNumberRunning(year, years, promotionNumber) == promotionNumber

\* promotionNumber: year > 0 && this.selectedYears.has(year) ? promotionNumber : 0
RowPromotionNumber(year, years, promotionNumber) ==
    IF year > 0 /\ year \in years THEN promotionNumber ELSE 0

\* The body of the for loop, from iteration `year` on; the loop's variables
\* are the parameters.
RECURSIVE ProgressionLoop(_, _, _, _, _, _, _)
ProgressionLoop(data, years, year, currentSalary, promotionNumber, totalEarned, progression) ==
    IF year > Horizon
    THEN [progression |-> progression,
          finalSalary |-> currentSalary,
          totalEarned |-> totalEarned]
    ELSE LET startingSalary == currentSalary
             colIncrease == ColIncrease(year, startingSalary, data)
             promotionIncrease ==
                 PromotionIncrease(year, years, startingSalary, data)
             number == NextPromotionNumber(year, years, promotionNumber)
             finalSalary == startingSalary + colIncrease + promotionIncrease
             row == [year |-> year,
                     promotionNumber |-> RowPromotionNumber(year, years, number),
                     startingSalary |-> startingSalary,
                     finalSalary |-> finalSalary,
                     colCompensation |-> colIncrease,
                     promotionRaise |-> promotionIncrease]
         IN ProgressionLoop(data, years, year + 1, finalSalary, number,
                            totalEarned + finalSalary,
                            Append(progression, row))

\* calculateProgression(data), reading this.selectedYears.  The percentage
\* fields (increase, totalIncrease, avgAnnualGrowth) are real-valued
\* quotients and are not carried.
CalculateProgression(data, years) ==
    ProgressionLoop(data, years, 0, data.startingSalary, 0, 0, <<>>)

\* validateForm(): every required input holds a number.
ValidateForm(startingInput, promotionInput) ==
    ~startingInput.nan /\ ~promotionInput.nan

\* toggleYear(year, element)
ToggleYear(year) ==
    /\ selectedYears' = IF year \in selectedYears
                        THEN selectedYears \ {year}
                        ELSE selectedYears \cup {year}
    /\ UNCHANGED <<submitted, results, tableHidden>>

\* handleSubmit(e): validateForm, read the form, calculateProgression,
\* displayResults.
HandleSubmit(startingInput, colInput, promotionInput) ==
    IF ~ValidateForm(startingInput, promotionInput)
    THEN UNCHANGED progVars
    ELSE LET data == [startingSalary |-> startingInput.v,
                      \* parseFloat(...) || 0
                      colCompensation |-> IF colInput.nan THEN 0 ELSE colInput.v,
                      promotionIncrease |-> promotionInput.v]
         IN /\ submitted' = [startingSalary |-> data.startingSalary,
                             colCompensation |-> data.colCompensation,
                             promotionIncrease |-> data.promotionIncrease,
                             years |-> selectedYears]
            /\ results' = CalculateProgression(data, selectedYears)
            /\ tableHidden' = FALSE
            /\ UNCHANGED selectedYears

(***************************************************************************)
(* Strings.  A string is a sequence of one-character strings, so that      *)
(* toLowerCase, trim, replace and includes are computed on its characters. *)
(***************************************************************************)

\* The longest string entered as a query in SpecResolver.
MaxLen == 3

Alphabet == {"a", "b", "c", "A", ".", " "}

RECURSIVE StringsOfLen(_)
StringsOfLen(n) ==
    IF n = 0 THEN {<<>>}
    ELSE {Append(s, ch) : s \in StringsOfLen(n - 1), ch \in Alphabet}

Strings == UNION {StringsOfLen(n) : n \in 0..MaxLen}

LowerChar(ch) ==
    CASE ch = "A" -> "a"
      [] ch = "B" -> "b"
      [] ch = "C" -> "c"
      [] ch = "D" -> "d"
      [] OTHER -> ch

\* String.prototype.toLowerCase
ToLowerCase(s) == [i \in 1..Len(s) |-> LowerChar(s[i])]

SetMin(S) == CHOOSE x \in S : \A y \in S : x <= y
SetMax(S) == CHOOSE x \in S : \A y \in S : y <= x

\* String.prototype.trim
Trim(s) ==
    LET solid == {i \in 1..Len(s) : s[i] # " "}
    IN IF solid = {} THEN <<>> ELSE SubSeq(s, SetMin(solid), SetMax(solid))

NotPeriod(ch) == ch # "."

\* .replace(/\./g, '')
RemovePeriods(s) == SelectSeq(s, NotPeriod)

\* s.includes(t)
Includes(s, t) ==
    \E i \in 0..(Len(s) - Len(t)) : SubSeq(s, i + 1, i + Len(t)) = t

\* cityName.toLowerCase().trim().replace(/\./g, '')
Normalize(s) == RemovePeriods(Trim(ToLowerCase(s)))

(***************************************************************************)
(* COLConverter.resolveCity                                                *)
(***************************************************************************)

\* return null
Null == [cbsa |-> "", msa |-> <<>>]

\* return { cbsa: msa.cbsa, msa: msa.msa }
Found(metro) == [cbsa |-> metro.cbsa, msa |-> metro.msa]

\* alias.toLowerCase().trim().replace(/\./g, '') === normalized
ExactAlias(alias, normalized) == Normalize(alias) = normalized

\* alias.toLowerCase().includes(normalized) ||
\* normalized.includes(alias.toLowerCase())
ContainsAlias(alias, normalized) ==
    \/ Includes(ToLowerCase(alias), normalized)
    \/ Includes(normalized, ToLowerCase(alias))

\* msaNormalized = msa.msa.toLowerCase().replace(/\./g, '');
\* msaNormalized.includes(normalized) || normalized.includes(msaNormalized)
NameMatch(name, normalized) ==
    LET msaNormalized == RemovePeriods(ToLowerCase(name))
    IN \/ Includes(msaNormalized, normalized)
       \/ Includes(normalized, msaNormalized)

\* exactAliasMatch = msa.aliases.find(...); if (exactAliasMatch): the first
\* alias passing the test is the match, and an empty string is falsy.
FindExact(aliases, normalized) ==
    LET hits == {i \in 1..Len(aliases) : ExactAlias(aliases[i], normalized)}
    IN hits # {} /\ aliases[SetMin(hits)] # <<>>

\* containsAliasMatch = msa.aliases.find(...); if (containsAliasMatch)
FindContains(aliases, normalized) ==
    LET hits == {i \in 1..Len(aliases) : ContainsAlias(aliases[i], normalized)}
    IN hits # {} /\ aliases[SetMin(hits)] # <<>>

\* Finally try contains match on MSA name: the third for loop, from index i.
RECURSIVE NameLoop(_, _, _)
NameLoop(table, i, normalized) ==
    IF i > Len(table) THEN Null
    ELSE IF NameMatch(table[i].msa, normalized) THEN Found(table[i])
    ELSE NameLoop(table, i + 1, normalized)

\* Then try contains match on aliases: the second for loop, from index i.
RECURSIVE ContainsLoop(_, _, _)
ContainsLoop(table, i, normalized) ==
    IF i > Len(table) THEN NameLoop(table, 1, normalized)
    ELSE IF FindContains(table[i].aliases, normalized)
         THEN Found(table[i])
    ELSE ContainsLoop(table, i + 1, normalized)

\* Mutant: the substring scan of the aliases runs before the exact scan.
ExactLoopLate(table, i, normalized) == ContainsLoop(table, i, normalized)

\* First try exact match on aliases: the first for loop, from index i.
RECURSIVE ExactLoop(_, _, _)
ExactLoop(table, i, normalized) ==
    IF i > Len(table) THEN ContainsLoop(table, 1, normalized)
    ELSE IF FindExact(table[i].aliases, normalized)
         THEN Found(table[i])
    ELSE ExactLoop(table, i + 1, normalized)

\* resolveCity(cityName), reading this.msaData
ResolveCity(table, cityName) ==
    IF cityName = <<>> THEN Null
    ELSE ExactLoop(table, 1, Normalize(cityName))

\* The metro table the converter loads (data/msas.json).
MetroTable ==
    << [msa |-> <<"c">>, cbsa |-> "10", aliases |-> << <<"a", "b">> >>],
       [msa |-> <<"b", "b">>, cbsa |-> "20",
        aliases |-> << <<"A">>, <<"b">> >>],
       [msa |-> <<"c", "c">>, cbsa |-> "30", aliases |-> << <<"c", "a">> >>] >>

\* A metro table whose names and aliases carry periods and whitespace.
PeriodTable ==
    << [msa |-> <<"a", ".", "c">>, cbsa |-> "10",
        aliases |-> << <<"a", ".", "b">> >>],
       [msa |-> <<"c", "b">>, cbsa |-> "20",
        aliases |-> << <<"b", "a">>, <<" ", "c", "c">> >>] >>

\* this.msaData = [] is the table of a page whose metro load failed.
ResolverTables == {MetroTable, PeriodTable, <<>>}

\* The path of handleConvert that reaches resolveCity, for the from field:
\* fromCity = field.value.trim(); if (!fromCity) throw ...;
\* resolveCity(fromCity).  Taken once, on the text the field holds.
ResolveField ==
    /\ query = <<>>
    /\ Trim(fromField) # <<>>
    /\ query' = Trim(fromField)
    /\ resolved' = ResolveCity(msaData, Trim(fromField))
    /\ UNCHANGED <<progVars, dataVars, pageVars>>

(***************************************************************************)
(* Numbers of the converter: exact rationals n/d in lowest terms, or NaN.  *)
(***************************************************************************)

NotANumber == [nan |-> TRUE, n |-> 0, d |-> 1]

Rat(n, d) ==
    LET g == GCD(Abs(n), d)
    IN [nan |-> FALSE, n |-> n \div g, d |-> d \div g]

\* a * b, cancelling across before multiplying
RMul(a, b) ==
    LET g1 == GCD(Abs(a.n), b.d)
        g2 == GCD(Abs(b.n), a.d)
    IN Rat((a.n \div g1) * (b.n \div g2), (a.d \div g2) * (b.d \div g1))

\* a / b for b > 0
RDiv(a, b) == RMul(a, [nan |-> FALSE, n |-> b.d, d |-> b.n])

Floor(a) == a.n \div a.d

\* a < k and a > k for an integer k
RLess(a, k) == Floor(a) < k
RGreater(a, k) == Floor(a) > k \/ (Floor(a) = k /\ a.n % a.d # 0)

(***************************************************************************)
(* COLConverter                                                            *)
(***************************************************************************)

\* if (salary < 15000 || salary > 5000000)
MinSalary == 15000
MaxSalary == 5000000

\* this.rppCache = {}
EmptyCache == [c \in {} |-> [value |-> NotANumber]]

\* The region index the converter loads (data/rpp_cache.json); region "30"
\* of the metro table has no entry.
RPPCache ==
    [c \in {"10", "20"} |->
        IF c = "10" THEN [value |-> Rat(100, 1)] ELSE [value |-> Rat(225, 2)]]

\* What the user types into the city fields.
FieldTexts ==
    { <<>>, <<"a", "b">>, <<"A", "B", "c", " ">>, <<"A">>, <<"c", "a">>,
      <<"d">> }

\* What the user types into the salary field, as parseFloat reads it:
\* 0, 14999.99, 15000, 20000.01, 5000000, 5000000.01.
SalaryInputs ==
    { Rat(0, 1), Rat(1499999, 100), Rat(15000, 1), Rat(2000001, 100),
      Rat(5000000, 1), Rat(500000001, 100) }

\* The from/to/salary parameters of the address the page is opened with: an
\* absent parameter is the empty string, an absent salary is NaN.
NoParams == [from |-> <<>>, to |-> <<>>, salary |-> NotANumber]
URLChoices ==
    { NoParams,
      [from |-> <<"a", "b">>, to |-> <<"A">>, salary |-> Rat(15000, 1)],
      [from |-> <<"d">>, to |-> <<>>, salary |-> NotANumber] }

NoTrace ==
    [outcome |-> "none", fromCity |-> <<>>, toCity |-> <<>>,
     salary |-> NotANumber, fromMSA |-> Null, toMSA |-> Null,
     fetched |-> FALSE]

NoDisplay ==
    [fromMSA |-> Null, toMSA |-> Null, salary |-> NotANumber,
     equivalent |-> NotANumber, ratio |-> NotANumber]

\* !salary: NaN and 0 are falsy
Falsy(salary) == salary.nan \/ salary.n = 0

\* salary < 15000 || salary > 5000000
OutOfRange(salary) == RLess(salary, MinSalary) \/ RGreater(salary, MaxSalary)

\* Mutant: the same-region check is missing.
SameRegionNever(fromMSA, toMSA) == FALSE

\* fromMSA.cbsa === toMSA.cbsa
SameRegion(fromMSA, toMSA) == fromMSA.cbsa = toMSA.cbsa

\* fetchRPP(cbsa): const data = this.rppCache[cbsa]; if (!data) throw
HasRPP(cache, cbsa) == cbsa \in DOMAIN cache

\* Mutant: the ratio is taken against the national baseline of 100.
RatioToBaseline(fromRPP, toRPP) == RDiv(toRPP.value, Rat(100, 1))

\* const ratio = toRPP.value / fromRPP.value;
Ratio(fromRPP, toRPP) == RDiv(toRPP.value, fromRPP.value)

\* The try block of handleConvert on the field contents it reads: the
\* outcome, the locals and the messages.
Convert(table, cache, fromText, toText, salary) ==
    LET fromCity == Trim(fromText)
        toCity == Trim(toText)
        fromMSA == ResolveCity(table, fromCity)
        toMSA == ResolveCity(table, toCity)
        base == [outcome |-> "fields", fromCity |-> fromCity,
                 toCity |-> toCity, salary |-> salary,
                 fromMSA |-> Null, toMSA |-> Null, fetched |-> FALSE,
                 alert |-> "", fromError |-> "", toError |-> "",
                 equivalent |-> NotANumber, ratio |-> NotANumber]
        looked == [base EXCEPT !.fromMSA = fromMSA, !.toMSA = toMSA]
    IN IF fromCity = <<>> \/ toCity = <<>> \/ Falsy(salary)
       THEN [base EXCEPT !.alert = "Please fill in all fields"]
       ELSE IF OutOfRange(salary)
       THEN [base EXCEPT !.outcome = "range",
                         !.alert = "Salary must be between $15,000 and $5,000,000"]
       ELSE IF fromMSA = Null
       THEN [looked EXCEPT !.outcome = "from",
                 !.fromError = "City not recognized. Try a nearby major city."]
       ELSE IF toMSA = Null
       THEN [looked EXCEPT !.outcome = "to",
                 !.toError = "City not recognized. Try a nearby major city."]
       ELSE IF SameRegion(fromMSA, toMSA)
       THEN [looked EXCEPT !.outcome = "same",
                 !.toError = "Please select a different destination city."]
       ELSE IF ~HasRPP(cache, fromMSA.cbsa) \/ ~HasRPP(cache, toMSA.cbsa)
       THEN [looked EXCEPT !.outcome = "index", !.fetched = TRUE,
                           !.alert = "No RPP data found for CBSA"]
       ELSE LET ratio == Ratio(cache[fromMSA.cbsa], cache[toMSA.cbsa])
            IN [looked EXCEPT !.outcome = "ok", !.fetched = TRUE,
                              !.ratio = ratio,
                              !.equivalent = RMul(salary, ratio)]

\* The four class switches; the argument and the value are the presence of
\* the class 'hidden' on the element before and after.
\* showResult() { this.result.classList.remove('hidden'); }
ShowResult(hidden) == FALSE

\* Mutant: hideResult leaves the panel as it is.
HideResultNoop(hidden) == hidden

\* hideResult() { this.result.classList.add('hidden'); }
HideResult(hidden) == TRUE

\* showLoading() { this.loading.classList.remove('hidden'); }
ShowLoading(hidden) == FALSE

\* hideLoading() { this.loading.classList.add('hidden'); }
HideLoading(hidden) == TRUE

\* The conversion reaches  await Promise.all([fetchRPP, fetchRPP]) : both
\* fetchRPP calls have run (and returned or thrown) and the rest of the
\* handler is queued behind the promise.
Suspends(c) == c.outcome \in {"index", "ok"}

\* handleConvert() from where it leaves the try block to its end: the
\* showFieldError before a return, or displayResults and updateShareLink, or
\* the catch; then the finally.  hidden and loading are the two panels'
\* classes when this part starts.
Complete(c, hidden, loading) ==
    \* clearErrors(), then showFieldError
    /\ fromError' = c.fromError
    /\ toError' = c.toError
    \* catch: showError(error.message)
    /\ lastAlert' = c.alert
    \* displayResults -> showResult()
    /\ resultHidden' = IF c.outcome = "ok" THEN ShowResult(hidden) ELSE hidden
    /\ shown' = IF c.outcome = "ok"
                THEN [fromMSA |-> c.fromMSA, toMSA |-> c.toMSA,
                      salary |-> c.salary, equivalent |-> c.equivalent,
                      ratio |-> c.ratio]
                ELSE shown
    \* updateShareLink(fromCity, toCity, salary)
    /\ shareURL' = IF c.outcome = "ok"
                   THEN [from |-> c.fromCity, to |-> c.toCity,
                         salary |-> c.salary]
                   ELSE shareURL
    \* finally: hideLoading()
    /\ loadingHidden' = HideLoading(loading)
    /\ trace' = [outcome |-> c.outcome, fromCity |-> c.fromCity,
                 toCity |-> c.toCity, salary |-> c.salary,
                 fromMSA |-> c.fromMSA, toMSA |-> c.toMSA,
                 fetched |-> c.fetched]
    /\ pending' = <<>>

\* handleConvert() with the fields holding f, t and s, up to its end or to
\* the await: clearErrors, hideResult, showLoading, then the try block.
HandleConvert(f, t, s) ==
    \E c \in {Convert(msaData, rppCache, f, t, s)} :
       /\ fromField' = f
       /\ toField' = t
       /\ salaryField' = s
       /\ IF Suspends(c)
          THEN /\ fromError' = ""
               /\ toError' = ""
               /\ lastAlert' = ""
               /\ resultHidden' = HideResult(resultHidden)
               /\ loadingHidden' = ShowLoading(loadingHidden)
               /\ pending' = <<c>>
               /\ UNCHANGED <<shown, shareURL, trace>>
          ELSE Complete(c, HideResult(resultHidden),
                        ShowLoading(loadingHidden))

\* handleConvert() after the await: Promise.all has settled, the handler
\* goes on with the two index entries or into the catch.  The continuation
\* is a microtask, so it runs before any other event is dispatched.
ResumeConvert ==
    /\ pending # <<>>
    /\ Complete(pending[1], resultHidden, loadingHidden)
    /\ UNCHANGED <<listening, fromField, toField, salaryField, dataVars,
                   progVars, resolverVars>>

\* loadMSAData(): the fetch and the JSON parse succeed
LoadMSADataOk ==
    /\ msaLoad = "pending"
    /\ msaLoad' = "ok"
    /\ msaData' = MetroTable
    /\ lastAlert' = ""
    /\ UNCHANGED <<rppLoad, rppCache, listening, fromField, toField,
                   salaryField, resultHidden, loadingHidden, fromError,
                   toError, shown, shareURL, trace, pending, progVars,
                   resolverVars>>

\* loadMSAData(): catch
LoadMSADataFail ==
    /\ msaLoad = "pending"
    /\ msaLoad' = "failed"
    /\ lastAlert' = "Failed to load city data. Please refresh the page."
    /\ UNCHANGED <<msaData, rppLoad, rppCache, listening, fromField, toField,
                   salaryField, resultHidden, loadingHidden, fromError,
                   toError, shown, shareURL, trace, pending, progVars,
                   resolverVars>>

\* loadRPPCache(): the fetch and the JSON parse succeed
LoadRPPCacheOk ==
    /\ rppLoad = "pending"
    /\ rppLoad' = "ok"
    /\ rppCache' = RPPCache
    /\ lastAlert' = ""
    /\ UNCHANGED <<msaLoad, msaData, listening, fromField, toField,
                   salaryField, resultHidden, loadingHidden, fromError,
                   toError, shown, shareURL, trace, pending, progVars,
                   resolverVars>>

\* loadRPPCache(): catch
LoadRPPCacheFail ==
    /\ rppLoad = "pending"
    /\ rppLoad' = "failed"
    /\ lastAlert' =
           "Failed to load cost of living data. Please refresh the page."
    /\ UNCHANGED <<rppCache, msaLoad, msaData, listening, fromField, toField,
                   salaryField, resultHidden, loadingHidden, fromError,
                   toError, shown, shareURL, trace, pending, progVars,
                   resolverVars>>

\* Mutant: init goes on as soon as one of the two loads has settled.
AnyLoadSettled == msaLoad # "pending" \/ rppLoad # "pending"

\* await Promise.all([this.loadMSAData(), this.loadRPPCache()])
BothLoadsSettled == msaLoad # "pending" /\ rppLoad # "pending"

\* init() after the await: populateCityOptions (a datalist no handler
\* reads), setupEventListeners, hydrateFromURL.
InitContinue ==
    /\ ~listening
    /\ BothLoadsSettled
    /\ listening' = TRUE
    /\ LET f == IF shareURL.from # <<>> THEN shareURL.from ELSE fromField
           t == IF shareURL.to # <<>> THEN shareURL.to ELSE toField
           s == IF ~shareURL.salary.nan THEN shareURL.salary ELSE salaryField
       IN IF shareURL.from # <<>> /\ shareURL.to # <<>> /\ ~shareURL.salary.nan
          THEN HandleConvert(f, t, s)
          ELSE /\ fromField' = f
               /\ toField' = t
               /\ salaryField' = s
               /\ lastAlert' = ""
               /\ UNCHANGED <<resultHidden, loadingHidden, fromError, toError,
                              shown, shareURL, trace, pending>>
    /\ UNCHANGED <<dataVars, progVars, resolverVars>>

\* The user fills the form and submits it: the 'submit' listener.
Submit(f, t, s) ==
    /\ listening
    /\ pending = <<>>
    /\ HandleConvert(f, t, s)
    /\ UNCHANGED <<listening, dataVars, progVars, resolverVars>>

\* The user presses Enter in one of the three inputs: the 'keypress'
\* listener converts, and so does the 'submit' listener when the form is
\* then submitted; both read the same fields.
KeypressEnter ==
    /\ listening
    /\ pending = <<>>
    /\ HandleConvert(fromField, toField, salaryField)
    /\ UNCHANGED <<listening, dataVars, progVars, resolverVars>>

\* switchDirection(): swap the cities, keep the salary, convert.
SwitchDirection ==
    /\ listening
    /\ pending = <<>>
    /\ HandleConvert(toField, fromField, salaryField)
    /\ UNCHANGED <<listening, dataVars, progVars, resolverVars>>

(***************************************************************************)
(* Specifications                                                          *)
(***************************************************************************)

ProgStart ==
    /\ selectedYears = {}
    /\ submitted = NoData
    /\ results = NoResults
    /\ tableHidden = TRUE

ResolverStart ==
    /\ query = <<>>
    /\ resolved = Null

PageStart ==
    /\ listening = FALSE
    /\ fromField = <<>>
    /\ toField = <<>>
    /\ salaryField = NotANumber
    /\ resultHidden = TRUE
    /\ loadingHidden = TRUE
    /\ fromError = ""
    /\ toError = ""
    /\ lastAlert = ""
    /\ shown = NoDisplay
    /\ trace = NoTrace
    /\ pending = <<>>

\* The converter page after the constructor: both loads in flight.
Init ==
    /\ msaLoad = "pending"
    /\ rppLoad = "pending"
    /\ msaData = <<>>
    /\ rppCache = EmptyCache
    /\ PageStart
    /\ shareURL \in URLChoices
    /\ ProgStart
    /\ ResolverStart

Next ==
    \/ LoadMSADataOk
    \/ LoadMSADataFail
    \/ LoadRPPCacheOk
    \/ LoadRPPCacheFail
    \/ InitContinue
    \/ \E f \in FieldTexts, t \in FieldTexts, s \in SalaryInputs :
           Submit(f, t, s)
    \/ KeypressEnter
    \/ SwitchDirection
    \/ ResumeConvert

Spec == Init /\ [][Next]_vars

\* The progression page after the constructor.
ProgInit ==
    /\ ProgStart
    /\ ResolverStart
    /\ msaLoad = "pending"
    /\ rppLoad = "pending"
    /\ msaData = <<>>
    /\ rppCache = EmptyCache
    /\ PageStart
    /\ shareURL = NoParams

ProgNext ==
    \/ /\ \E year \in ClickYears : ToggleYear(year)
       /\ UNCHANGED <<resolverVars, dataVars, pageVars>>
    \/ /\ \E s \in {Num(x) : x \in StartingSalaries} \cup {NaN},
             c \in {Num(x) : x \in ColRates} \cup {NaN},
             p \in {Num(x) : x \in PromotionRates} \cup {NaN} :
             HandleSubmit(s, c, p)
       /\ UNCHANGED <<resolverVars, dataVars, pageVars>>

SpecProgression == ProgInit /\ [][ProgNext]_vars

\* resolveCity on its own: a table, and any string of the alphabet in the
\* from field.
ResolverInit ==
    /\ ResolverStart
    /\ ProgStart
    /\ msaLoad = "ok"
    /\ rppLoad = "ok"
    /\ msaData \in ResolverTables
    /\ rppCache = RPPCache
    /\ listening = TRUE
    /\ fromField \in Strings
    /\ toField = <<>>
    /\ salaryField = NotANumber
    /\ resultHidden = TRUE
    /\ loadingHidden = TRUE
    /\ fromError = ""
    /\ toError = ""
    /\ lastAlert = ""
    /\ shown = NoDisplay
    /\ trace = NoTrace
    /\ pending = <<>>
    /\ shareURL = NoParams

ResolverNext == ResolveField

SpecResolver == ResolverInit /\ [][ResolverNext]_vars

(***************************************************************************)
(* Claims                                                                  *)
(***************************************************************************)

\* C1: calculateProgression returns 21 rows for the years 0..20 in order;
\* row 0 carries the input salary as starting and final salary with both
\* amounts 0; every row y >= 1 starts at row y-1's final salary, its COL
\* amount is startingSalary * colRate/100, its promotion amount is
\* startingSalary * promotionRate/100 in a selected year and 0 otherwise, and
\* its final salary is the sum of the three.
C1_ProgressionRows ==
    ~tableHidden =>
        LET rows == results.progression
            d == submitted
        IN /\ Len(rows) = 21
           /\ \A i \in 1..21 : rows[i].year = i - 1
           /\ rows[1].startingSalary = d.startingSalary
           /\ rows[1].finalSalary = d.startingSalary
           /\ rows[1].colCompensation = 0
           /\ rows[1].promotionRaise = 0
           /\ \A y \in 1..20 :
                LET r == rows[y + 1]
                IN /\ r.startingSalary = rows[y].finalSalary
                   /\ r.colCompensation = Pct(r.startingSalary, d.colCompensation)
                   /\ r.promotionRaise =
                        (IF y \in d.years
                         THEN Pct(r.startingSalary, d.promotionIncrease)
                         ELSE 0)
                   /\ r.finalSalary =
                        r.startingSalary + r.colCompensation + r.promotionRaise

\* A table was rendered whose year 20 is a promotion year with a COL amount
\* and a promotion amount, after an earlier promotion year.
C1_Witness ==
    /\ ~tableHidden
    /\ {2, 20} \subseteq submitted.years
    /\ results.progression[21].colCompensation > 0
    /\ results.progression[21].promotionRaise # 0
    /\ results.progression[21].startingSalary # submitted.startingSalary

\* C2: the promotion sequence number of a row is 0 when its year is not
\* selected (year 0 included) and, on a selected year, the rank of that year
\* among the selected years in ascending order.
C2_PromotionNumbers ==
    ~tableHidden =>
        \A i \in 1..Len(results.progression) :
            LET r == results.progression[i]
            IN r.promotionNumber =
                 IF r.year \in submitted.years
                 THEN Cardinality({z \in submitted.years : z <= r.year})
                 ELSE 0

\* A table was rendered with three selected years and unselected years
\* between them; the last selected year carries the number 3.
C2_Witness ==
    /\ ~tableHidden
    /\ submitted.years = {1, 10, 20}
    /\ results.progression[21].promotionNumber = 3
    /\ results.progression[3].promotionNumber = 0

\* The metros of the loaded table with an alias equal to the query.
MetrosByExactAlias(normalized) ==
    {i \in 1..Len(msaData) :
        \E j \in 1..Len(msaData[i].aliases) :
            ExactAlias(msaData[i].aliases[j], normalized)}

\* The metros with an alias containing or contained in the query.
MetrosByPartialAlias(normalized) ==
    {i \in 1..Len(msaData) :
        \E j \in 1..Len(msaData[i].aliases) :
            ContainsAlias(msaData[i].aliases[j], normalized)}

MetrosByName(normalized) ==
    {i \in 1..Len(msaData) : NameMatch(msaData[i].msa, normalized)}

\* C3: resolveCity returns the first metro in table order with an alias
\* equal to the normalized query if there is one (even when an earlier metro
\* matches by substring), otherwise the first metro with an alias containing
\* or contained in the query, otherwise the first metro whose canonical name
\* contains or is contained in the query, otherwise null.
C3_TierThenTableOrder ==
    query # <<>> =>
        LET n == Normalize(query)
            exact == MetrosByExactAlias(n)
            partial == MetrosByPartialAlias(n)
            named == MetrosByName(n)
        IN resolved =
             IF exact # {} THEN Found(msaData[SetMin(exact)])
             ELSE IF partial # {} THEN Found(msaData[SetMin(partial)])
             ELSE IF named # {} THEN Found(msaData[SetMin(named)])
             ELSE Null

\* A query was resolved to the metro holding it as an exact alias although
\* an earlier metro of the table matches it by substring.
C3_Witness ==
    /\ query # <<>>
    /\ MetrosByExactAlias(Normalize(query)) # {}
    /\ \E i \in MetrosByPartialAlias(Normalize(query)) :
           i < SetMin(MetrosByExactAlias(Normalize(query)))
    /\ resolved =
           Found(msaData[SetMin(MetrosByExactAlias(Normalize(query)))])

\* The substring tests on the fully normalized alias and canonical name.
MetrosByNormalizedAlias(normalized) ==
    {i \in 1..Len(msaData) :
        \E j \in 1..Len(msaData[i].aliases) :
            \/ Includes(Normalize(msaData[i].aliases[j]), normalized)
            \/ Includes(normalized, Normalize(msaData[i].aliases[j]))}

MetrosByNormalizedName(normalized) ==
    {i \in 1..Len(msaData) :
        \/ Includes(Normalize(msaData[i].msa), normalized)
        \/ Includes(normalized, Normalize(msaData[i].msa))}

\* C4: in all three tiers the alias or canonical name is normalized exactly
\* as the query is (lowercased, trimmed, periods removed), so resolveCity
\* returns what the three tiers decide on the fully normalized strings.
C4_NormalizedInEveryTier ==
    query # <<>> =>
        LET n == Normalize(query)
            exact == MetrosByExactAlias(n)
            partial == MetrosByNormalizedAlias(n)
            named == MetrosByNormalizedName(n)
        IN resolved =
             IF exact # {} THEN Found(msaData[SetMin(exact)])
             ELSE IF partial # {} THEN Found(msaData[SetMin(partial)])
             ELSE IF named # {} THEN Found(msaData[SetMin(named)])
             ELSE Null

\* C5: resolving the normalized form of a query yields the same region code,
\* or the same not-found outcome, as resolving the query itself.
C5_ResolveIdempotent ==
    query # <<>> =>
        ResolveCity(msaData, Normalize(query)).cbsa = resolved.cbsa

\* The conversion the trace records is the latest one started, it was made
\* on two filled city fields and a salary within [15000, 5000000], and
\* resolveCity returned one region code for both cities.
SameRegionCase ==
    /\ trace.outcome # "none"
    /\ pending = <<>>
    /\ trace.fromCity # <<>>
    /\ trace.toCity # <<>>
    /\ ~trace.salary.nan
    /\ ~RLess(trace.salary, 15000)
    /\ ~RGreater(trace.salary, 5000000)
    /\ trace.fromMSA # Null
    /\ trace.fromMSA.cbsa = trace.toMSA.cbsa

\* C6: a conversion of an in-range salary between two queries that resolve
\* to the same region code ends with the same-region error on the to field,
\* makes no index lookup, leaves the result hidden and does not touch the
\* share URL.
C6_SameRegionRejected ==
    [][SameRegionCase' =>
          /\ trace'.outcome = "same"
          /\ toError' = "Please select a different destination city."
          /\ ~trace'.fetched
          /\ resultHidden'
          /\ shareURL' = shareURL]_vars

\* A conversion between two different texts of one region was rejected.
C6_Witness ==
    /\ trace.outcome = "same"
    /\ trace.fromCity # trace.toCity
    /\ ToLowerCase(trace.fromCity) # ToLowerCase(trace.toCity)

\* The conversion back: from the to city to the from city, of the
\* equivalent salary the last conversion displayed.
BackConversion ==
    Convert(msaData, rppCache, trace.toCity, trace.fromCity, shown.equivalent)

\* C7 as stated: after every successful conversion of s yielding e, the
\* conversion of e back succeeds and returns s.
C7_RoundTripAlways ==
    trace.outcome = "ok" =>
        /\ BackConversion.outcome = "ok"
        /\ BackConversion.equivalent = trace.salary

\* C7 as amended: after a successful conversion of s yielding e, the
\* conversion of e back succeeds and returns s when e lies within
\* [15000, 5000000], and is rejected with the range error when it does not.
C7_RoundTripInRange ==
    trace.outcome = "ok" =>
        IF \/ RLess(shown.equivalent, 15000)
           \/ RGreater(shown.equivalent, 5000000)
        THEN BackConversion.outcome = "range"
        ELSE /\ BackConversion.outcome = "ok"
             /\ BackConversion.equivalent = trace.salary

\* A conversion succeeded with an equivalent salary that is in range, is no
\* whole number and differs from the salary entered.
C7_Witness ==
    /\ trace.outcome = "ok"
    /\ ~RLess(shown.equivalent, 15000)
    /\ ~RGreater(shown.equivalent, 5000000)
    /\ shown.equivalent.d # 1
    /\ shown.equivalent # trace.salary

\* C8: once the load of the metro table or of the region index has failed,
\* every conversion ends with a data-load error.
C8_LoadFailureDisables ==
    (trace.outcome # "none" /\ (msaLoad = "failed" \/ rppLoad = "failed"))
        => trace.outcome = "data-load"

\* C9: no conversion has run while a table load is still pending.
C9_StartupBarrier ==
    trace.outcome # "none" => (msaLoad # "pending" /\ rppLoad # "pending")

\* A conversion ran on the URL parameters, as the last step of init, with
\* both tables loaded.
C9_Witness ==
    /\ trace.outcome = "ok"
    /\ listening
    /\ shareURL \in URLChoices
    /\ msaLoad = "ok"
    /\ rppLoad = "ok"

\* C10: with both city fields filled, a salary of 15000 to 5000000, ends
\* included, passes the range validation, and every salary below 15000 or
\* above 5000000 is rejected with the range error before a city is resolved.
C10_RangeInclusive ==
    (/\ trace.outcome # "none"
     /\ trace.fromCity # <<>>
     /\ trace.toCity # <<>>
     /\ ~trace.salary.nan)
        => IF RLess(trace.salary, 15000) \/ RGreater(trace.salary, 5000000)
           THEN /\ trace.outcome = "range"
                /\ trace.fromMSA = Null
                /\ trace.toMSA = Null
           ELSE trace.outcome \notin {"range", "fields"}

\* The latest completed conversion passed every gate: the three fields
\* non-empty, the salary within [15000, 5000000], both cities resolved, two
\* different region codes, both of them in the index table.
PassedEveryGate ==
    LET fromMSA == ResolveCity(msaData, trace.fromCity)
        toMSA == ResolveCity(msaData, trace.toCity)
    IN /\ trace.fromCity # <<>>
       /\ trace.toCity # <<>>
       /\ ~trace.salary.nan
       /\ ~RLess(trace.salary, 15000)
       /\ ~RGreater(trace.salary, 5000000)
       /\ fromMSA # Null
       /\ toMSA # Null
       /\ fromMSA.cbsa # toMSA.cbsa
       /\ fromMSA.cbsa \in DOMAIN rppCache
       /\ toMSA.cbsa \in DOMAIN rppCache

\* C11: once the latest handleConvert invocation has completed, the result
\* panel is visible exactly when that conversion passed every gate (so a
\* failed conversion never leaves an earlier result visible), and the
\* loading indicator is hidden, whichever path the invocation took.
C11_PanelTracksLatest ==
    (trace.outcome # "none" /\ pending = <<>>) =>
        /\ ~resultHidden <=> PassedEveryGate
        /\ loadingHidden

\* A conversion that went through the await and failed on the index table
\* has completed after an earlier conversion had displayed a result: the
\* panel and the loading indicator are both hidden.
C11_Witness ==
    /\ pending = <<>>
    /\ trace.outcome = "index"
    /\ shown # NoDisplay
    /\ resultHidden
    /\ loadingHidden

====
